---- MODULE Spec2Model ----
(***************************************************************************)
(* State-machine model of services/geminiService.ts (first variant of the  *)
(* file, lines 1-393): the Backoff Executor (retryWithBackoff), the Model  *)
(* Fallback Router (UnifiedLLM.execute and the module-level cursor         *)
(* currentModelIndex) and the orchestrator runVisionNarratePipeline with   *)
(* its Segment Synthesis Chain.  One action is the code between two        *)
(* awaits.  External services are the environment: every outcome an        *)
(* external call can have is a nondeterministic choice.                    *)
(***************************************************************************)
EXTENDS Integers, Sequences, FiniteSets, TLC

(* ---------------- program constants ---------------- *)
NumTiers == 3              \* LLM_FALLBACK_CHAIN.length
maxRetries == 3            \* retryWithBackoff default
InitialSegmentSeconds == 5 \* accumulatedSeconds = 5 after INIT
ExtensionSeconds == 7      \* accumulatedSeconds += 7
SafetyCapSeconds == 1800   \* if (accumulatedSeconds >= 1800) break
SeedStreakCeiling == 15    \* if (errorStreak > 15) throw
ErrorStreakCeiling == 10   \* if (errorStreak > 10) throw
DefaultMinutes == 1        \* config.goal.durationMinutes || 1
SecondsPerMinute == 60     \* ... * 60

(* ---------------- bounds of the model ---------------- *)
MaxRuns == 2        \* runs started one after the other in one process, runs mode
MaxPolls == 1       \* polls of one operation answering "not done" that are counted
MaxExtFaults == 1   \* failing extension attempts per run, trace mode
MaxChapters == 1    \* chapters in a parsed plan
MaxRecordings == 1  \* entries of config.recordings, stages mode

(* config.goal.durationMinutes in tenths of a minute, so that fractional   *)
(* minutes (the field is a number) are inputs too.                         *)
ShortTenths == {-10, 1}
StagesTenths == {1, 3}
StreakTenths == {3}
AuditTenths == {1}
ChainTenths == {0, 10, 310}

TierName(i) == CASE i = 0 -> "TIER_0" [] i = 1 -> "TIER_1" [] OTHER -> "TIER_2"

(* An error value: the class of its message and the call that raised it.   *)
(* RATE: the message contains "429" or "RESOURCE_EXHAUSTED"; SEED: it      *)
(* contains "PROCESSED" or "400"; TYPE: a TypeError of the run's own code. *)
Err(kind, at) == [kind |-> kind, at |-> at]
NoErr == Err("none", "none")

VARIABLES
    mode,                \* the scenario explored: "trace", "chain" or "runs" (see Scenarios)
    runs,                \* runs started so far in this process
    currentModelIndex,   \* the module-level cursor
    pc,                  \* the await the current run is suspended at
    config,              \* [manual, tenths]
    targetSeconds,
    logs,                \* the run's LogEntry list
    tierI,               \* loop variable i of UnifiedLLM.execute
    lastError,           \* lastError of UnifiedLLM.execute
    attempt,             \* loop variable i of the active retryWithBackoff
    tierFailures,        \* tiers abandoned by the current execute: [tier, calls, err]
    firstTier,           \* tier of the first call of the current execute, -1 before it
    okTier,              \* tier whose call succeeded in this run's execute, -1 if none
    prevOkTier,          \* the same for the previous run
    parsedChapters,      \* sequence over {"obj", "null"}
    operation,           \* operation: the INIT operation
    extOp,               \* extOp: the extension operation being polled, NoOp outside its block
    polls,               \* polls so far of the operation being polled
    lastVideoOperation,  \* video of the retained handle
    accumulatedSeconds,
    segmentIndex,
    errorStreak,
    extSubmitted,        \* an extension call has been submitted in this run
    thrown,              \* error the run's promise rejected with
    result,              \* the GenerationResult, or NoResult
    extFaults,           \* failing extension attempts so far in this run
    combinedScript,      \* the chapters whose narrationScript is joined for speech
    ttsError,            \* the error caught by generateSpeech, NoErr if none
    vJepaMetadata,       \* the grounding handed to the planner: [origin, scenes]
    progress,            \* stages mode: the latest onProgress call, [state, percent]
    speechCalls,         \* calls of UnifiedLLM.generateSpeech in this run
    extOutcome,          \* stages mode: extension attempts ended so far and how the latest ended
    taskOutcomes,        \* backoff mode: outcome of each invocation of the task
    waits,               \* backoff mode: the delay of each wait, in ms
    text,                \* normalizer mode: the input text, a sequence of tokens
    extracted,           \* normalizer mode: the results of successive extractJson calls
    diagnosis,           \* forensic mode: what forensicLogAnalysis resolved to
    delivered,           \* audit mode: the entries handed to onProgress, in order
    chapterPlan,         \* chapters mode: chapters, the ids of the planned chapters in order
    processedChapters,   \* chapters mode: processedChapters, as [id, status, videoUrl]
    imageCalls,          \* chapters mode: still-image calls made for each chapter
    exec,                \* concurrent mode: each run's position, loop index i and tiers
    cursorTrace          \* concurrent mode: the values assigned to currentModelIndex

vars == <<mode, runs, currentModelIndex, pc, config, targetSeconds, logs, tierI,
          lastError, attempt, tierFailures, firstTier, okTier, prevOkTier,
          parsedChapters, operation, extOp, polls, lastVideoOperation, accumulatedSeconds, segmentIndex, errorStreak,
          extSubmitted, thrown, result, extFaults, combinedScript, ttsError,
          vJepaMetadata, progress, speechCalls, extOutcome,
          taskOutcomes, waits, text, extracted, diagnosis,
          delivered, chapterPlan, processedChapters, imageCalls, exec, cursorTrace>>

(* the variables of the earlier variant's chapter loop and of two runs at  *)
(* once                                                                    *)
Apart == <<chapterPlan, processedChapters, imageCalls, exec, cursorTrace>>

(* the variables of the functions modelled on their own *)
Detached == <<taskOutcomes, waits, text, extracted, diagnosis, Apart>>

NoResult == [returned |-> FALSE, totalDuration |-> 0, finalAudioUrl |-> "none", finalTier |-> "none"]
NoOp == [done |-> FALSE, error |-> "none", video |-> "none"]

(* ---------------- scenarios ---------------- *)
(* The environment and what the model retains differ by scenario; the      *)
(* program's steps are the same in all three.                              *)
(*  trace: one run, short targets, any planner faults, bounded extension   *)
(*         faults, the whole log list                                      *)
(*  chain: one run, targets up to beyond the safety cap, any number of     *)
(*         extension faults, no planner faults                             *)
(*  runs : several runs in sequence, any planner faults, short targets     *)
(*  stages: one run, every kind of grounding input, targets of one and two *)
(*         extensions, no planner faults, bounded extension faults; the    *)
(*         onProgress calls and the outcome of each extension attempt are  *)
(*         retained                                                        *)
(*  audit: as trace with the one target that needs an extension and with  *)
(*         an override always supplied (one that parses or one that does   *)
(*         not, which together reach every log call of the grounding);     *)
(*         what is handed to onProgress with each entry is retained too    *)
(*  streak: one run, a target of two extensions, any number of extension  *)
(*         faults, no planner faults; of the log list only the entries the *)
(*         latest logging step appended are retained, and of the extension *)
(*         attempts how the latest ended                                   *)
(* The scenarios backoff, normalizer and forensic are one call of          *)
(* retryWithBackoff, extractJson and forensicLogAnalysis on its own.       *)
(* Outside trace the log list is not retained (it stays empty): the code   *)
(* never reads the list back, so control flow does not depend on it.       *)
KeepsLogList == mode \in {"trace", "backoff", "audit"}
KeepsDeliveries == mode = "audit"
KeepsLatestEntries == mode = "streak"
TracksSteps == mode = "stages"
RunCap == IF mode = "runs" THEN MaxRuns ELSE 1
TenthsOffered ==
    CASE mode = "chain" -> ChainTenths
      [] mode = "stages" -> StagesTenths
      [] mode = "streak" -> StreakTenths
      [] mode = "audit" -> AuditTenths
      [] OTHER -> ShortTenths
(* config.manualVjepa: absent (undefined or ""), valid (JSON.parse yields a *)
(* truthy value, taken to hold a grounding record), invalid (JSON.parse    *)
(* throws), falsy (JSON.parse yields null, 0, false or "")                 *)
ManualOffered ==
    CASE mode = "trace" -> {"absent", "valid", "invalid"}
      [] mode = "audit" -> {"valid", "invalid"}
      [] mode = "stages" -> {"absent", "valid", "invalid", "falsy"}
      [] OTHER -> {"absent"}
(* config.recordings.length *)
RecordingsOffered == IF mode = "stages" THEN 0..MaxRecordings ELSE {1}
LlmFaultOk == mode \notin {"chain", "stages", "streak"}
ExtFaultOk == mode \in {"chain", "streak"} \/ extFaults < MaxExtFaults
ExtFault == IF mode \in {"chain", "streak"} THEN extFaults ELSE extFaults + 1

(* ---------------- helpers ---------------- *)
MinOf(a, b) == IF a < b THEN a ELSE b

(* vJepaMetadata before it is assigned *)
NoGrounding == [origin |-> "undefined", scenes |-> 0]

(* onProgress(state, message, percent) *)
ProgressCall(state, percent) == [state |-> state, percent |-> percent]
NoProgress == ProgressCall("NONE", 0)

(* addLog: onProgress(AppState.INGESTION, message, 0, entry) *)
IngestionCall == ProgressCall("INGESTION", 0)

(* the latest onProgress call of the step *)
Report(call) == progress' = IF TracksSteps THEN call ELSE progress

(* 20 + Math.min(75, (accumulatedSeconds / targetSeconds) * 75), rounded down *)
ExpandingPercent(acc) == 20 + MinOf(75, (acc * 75) \div targetSeconds)

(* no extension attempt has ended yet *)
NoAttempt == [ended |-> 0, how |-> "none", video |-> "none", done |-> FALSE]

(* the extension attempt has ended: extended, seedDelay or failed; op is   *)
(* the operation as last answered (NoOp when the call threw)               *)
Attempted(how, op) ==
    extOutcome' =
        CASE TracksSteps ->
               [ended |-> extOutcome.ended + 1, how |-> how, video |-> op.video,
                done |-> op.done]
          [] KeepsLatestEntries ->
               [ended |-> 0, how |-> how, video |-> op.video, done |-> op.done]
          [] OTHER -> extOutcome


(* const targetSeconds = (config.goal.durationMinutes || 1) * 60 *)
TargetSecondsOf(tenths) ==
    IF tenths = 0 THEN DefaultMinutes * SecondsPerMinute
    ELSE (tenths * SecondsPerMinute) \div 10

(* addLog: the entry carries the tier the cursor points at when it is made *)
Entry(level, source, cursor, tier, err) ==
    [level |-> level, source |-> source, activeTier |-> TierName(cursor),
     tier |-> tier, err |-> err]

(* logs.push(entry), for each entry of es in order *)
Push(es) ==
    CASE KeepsLogList -> logs \o es
      [] KeepsLatestEntries /\ es # <<>> -> es
      [] OTHER -> logs

(* variant: onProgress gets the entry only when the list was empty *)
DeliverFirst(es) ==
    IF KeepsDeliveries /\ logs = <<>> THEN delivered \o es ELSE delivered

(* onProgress(AppState.INGESTION, message, 0, entry), for each entry of es *)
Deliver(es) ==
    IF KeepsDeliveries THEN delivered \o es ELSE delivered

(* addLog, for each entry of es in order *)
Logged(es) ==
    /\ logs' = Push(es)
    /\ delivered' = Deliver(es)

(* variant: no failure is ever retried *)
RetryableNever(kind, i) == FALSE

(* isRateLimit && i < maxRetries - 1 *)
Retryable(kind, i) == kind = "RATE" /\ i < maxRetries - 1

(* variant: a retry is logged at INFO *)
RateLimitInfo == Entry("INFO", "RATE_LIMITER", currentModelIndex, "none", NoErr)

(* addLog('WARN', `Quota reached. ...`, "RATE_LIMITER") *)
RateLimitWarn == Entry("WARN", "RATE_LIMITER", currentModelIndex, "none", NoErr)

(* variant: every execute starts again at tier 0 *)
ExecuteStartZero(cursor) == 0

(* for (let i = currentModelIndex; i < LLM_FALLBACK_CHAIN.length; i++) *)
ExecuteStart(cursor) == cursor
NextTier(i) == i + 1

(* variant: the cursor is not moved to the tier being routed to *)
RouteCursorStale(i) == currentModelIndex

(* variant: the cursor is moved one tier past the tier being routed to *)
RouteCursorAhead(i) == i + 1

(* currentModelIndex = i *)
RouteCursor(i) == i

(* variant: only the first tier's error is kept *)
RememberFirstError(prev, e) == IF prev = NoErr THEN e ELSE prev

(* lastError = error, in the catch of execute *)
RememberError(prev, e) == e

(* ---------------- initial state: the module has been loaded ---------------- *)
InitCommon ==
    /\ runs = 0
    /\ currentModelIndex = 0
    /\ pc = "idle"
    /\ config = [manual |-> "absent", tenths |-> 0, recordings |-> 0]
    /\ targetSeconds = 0
    /\ logs = <<>>
    /\ tierI = 0
    /\ lastError = NoErr
    /\ attempt = 0
    /\ tierFailures = <<>>
    /\ firstTier = -1
    /\ okTier = -1
    /\ prevOkTier = -1
    /\ parsedChapters = <<>>
    /\ operation = NoOp
    /\ extOp = NoOp
    /\ polls = 0
    /\ lastVideoOperation = "null"
    /\ accumulatedSeconds = 0
    /\ segmentIndex = 0
    /\ errorStreak = 0
    /\ extSubmitted = FALSE
    /\ thrown = NoErr
    /\ result = NoResult
    /\ extFaults = 0
    /\ combinedScript = <<>>
    /\ ttsError = NoErr
    /\ vJepaMetadata = NoGrounding
    /\ progress = NoProgress
    /\ speechCalls = 0
    /\ extOutcome = NoAttempt
    /\ taskOutcomes = <<>>
    /\ waits = <<>>
    /\ text = <<>>
    /\ extracted = <<>>
    /\ diagnosis = [lines |-> 0, text |-> "pending"]
    /\ delivered = <<>>
    /\ chapterPlan = <<>>
    /\ processedChapters = <<>>
    /\ imageCalls = <<>>
    /\ exec = <<>>
    /\ cursorTrace = <<>>

Init == mode = "trace" /\ InitCommon
InitChain == mode = "chain" /\ InitCommon
InitRuns == mode = "runs" /\ InitCommon
InitStages == mode = "stages" /\ InitCommon
InitStreak == mode = "streak" /\ InitCommon
InitAudit == mode = "audit" /\ InitCommon

(* ---------------- runVisionNarratePipeline: entry ---------------- *)
StartRun ==
    /\ pc \in {"idle", "returned", "rejected"}
    /\ runs < RunCap
    /\ \E manual \in ManualOffered :
       \E tenths \in TenthsOffered :
       \E recordings \in RecordingsOffered :
          config' = [manual |-> manual, tenths |-> tenths, recordings |-> recordings]
    /\ runs' = runs + 1
    /\ pc' = "grounding"
    /\ logs' = <<>>
    /\ delivered' = <<>>
    /\ progress' = NoProgress
    /\ targetSeconds' = 0
    /\ tierI' = 0
    /\ lastError' = NoErr
    /\ attempt' = 0
    /\ tierFailures' = <<>>
    /\ firstTier' = -1
    /\ okTier' = -1
    /\ prevOkTier' = okTier
    /\ parsedChapters' = <<>>
    /\ operation' = NoOp
    /\ extOp' = NoOp
    /\ polls' = 0
    /\ lastVideoOperation' = "null"
    /\ accumulatedSeconds' = 0
    /\ segmentIndex' = 0
    /\ errorStreak' = 0
    /\ extSubmitted' = FALSE
    /\ thrown' = NoErr
    /\ result' = NoResult
    /\ extFaults' = 0
    /\ combinedScript' = <<>>
    /\ ttsError' = NoErr
    /\ vJepaMetadata' = NoGrounding
    /\ speechCalls' = 0
    /\ extOutcome' = NoAttempt
    /\ UNCHANGED <<Detached, mode, currentModelIndex>>

(* the override is used: config.manualVjepa is truthy, JSON.parse returns  *)
(* and !vJepaMetadata is false                                             *)
ManualTaken(manual) == manual = "valid"

(* scene_graph: config.recordings.map(...), one record per recording *)
SceneGraph(recordings) == recordings

(* vJepaMetadata when the planner prompt is built *)
GroundingOf(cfg) ==
    IF ManualTaken(cfg.manual)
    THEN [origin |-> "manual", scenes |-> 1]
    ELSE [origin |-> "synthesized", scenes |-> SceneGraph(cfg.recordings)]

(* Stage 1, then the entry of UnifiedLLM.execute up to its loop head *)
Grounding ==
    /\ pc = "grounding"
    /\ Report(ProgressCall("PLANNING", 15))
    /\ Logged(
         CASE config.manual = "valid" ->
                <<Entry("INFO", "OVERRIDE_ENGINE", currentModelIndex, "none", NoErr)>>
           [] config.manual = "falsy" ->
                <<Entry("INFO", "OVERRIDE_ENGINE", currentModelIndex, "none", NoErr),
                  Entry("INFO", "V_JE_PA_ENGINE", currentModelIndex, "none", NoErr)>>
           [] config.manual = "invalid" ->
                <<Entry("ERROR", "OVERRIDE_ENGINE", currentModelIndex, "none", NoErr),
                  Entry("INFO", "V_JE_PA_ENGINE", currentModelIndex, "none", NoErr)>>
           [] OTHER ->
                <<Entry("INFO", "V_JE_PA_ENGINE", currentModelIndex, "none", NoErr)>>)
    /\ vJepaMetadata' = GroundingOf(config)
    /\ targetSeconds' = TargetSecondsOf(config.tenths)
    /\ tierI' = ExecuteStart(currentModelIndex)
    /\ lastError' = NoErr
    /\ pc' = "planRoute"
    /\ UNCHANGED <<Detached, speechCalls, extOutcome, combinedScript, ttsError, mode, runs, currentModelIndex, config, attempt, tierFailures, firstTier,
                   okTier, prevOkTier, parsedChapters, operation, extOp, polls, lastVideoOperation,
                   accumulatedSeconds, segmentIndex, errorStreak, extSubmitted,
                   thrown, result, extFaults>>

(* ---------------- Chapter Planner: what the response text parses to ------- *)
(* A planner response is modelled by what JSON.parse(extractJson(text))    *)
(* yields: parses = FALSE when it throws, else the chapter list taken from *)
(* it (the array itself, or rawParsed.chapters || []), element by element  *)
(* an object or null.                                                      *)
RECURSIVE SeqsUpTo(_, _)
SeqsUpTo(S, n) ==
    IF n = 0 THEN {<<>>}
    ELSE LET shorter == SeqsUpTo(S, n - 1)
         IN shorter \cup {Append(q, x) : q \in {r \in shorter : Len(r) = n - 1}, x \in S}

(* a plan of several well-formed chapters, offered in runs and stages mode *)
LongPlan == <<"obj", "obj", "obj">>
LongPlansOffered == IF mode \in {"runs", "stages"} THEN {LongPlan} ELSE {}

PlannerResponses ==
    {[parses |-> FALSE, chapters |-> <<>>]}
    \cup {[parses |-> TRUE, chapters |-> c] :
             c \in SeqsUpTo({"obj", "null"}, MaxChapters) \cup LongPlansOffered}

FallbackPlan == <<"obj">>

ParsedChaptersOf(resp) == IF resp.parses THEN resp.chapters ELSE FallbackPlan

(* the catch block of the planner parse *)
ParseLogs(resp, cursor) ==
    IF resp.parses
    THEN <<>>
    ELSE <<Entry("ERROR", "PLANNER", cursor, "none", NoErr)>>

(* ---------------- UnifiedLLM.execute ---------------- *)

(* loop head: either route to tier i, or leave the loop and throw.  The   *)
(* planning call is made outside the pipeline's try block, so the         *)
(* rejection reaches the caller directly.                                  *)
PlanRoute ==
    /\ pc = "planRoute"
    /\ IF tierI < NumTiers
       THEN /\ currentModelIndex' = RouteCursor(tierI)
            /\ Report(IngestionCall)
            /\ Logged(<<Entry("DEBUG", "LLM_ORCHESTRATOR", RouteCursor(tierI),
                                     TierName(tierI), NoErr)>>)
            /\ attempt' = 0
            /\ firstTier' = IF firstTier = -1 THEN tierI ELSE firstTier
            /\ pc' = "planCall"
            /\ UNCHANGED thrown
       ELSE /\ thrown' = IF lastError = NoErr THEN Err("OTHER", "EXHAUSTED") ELSE lastError
            /\ pc' = "rejected"
            /\ UNCHANGED <<currentModelIndex, logs, progress, delivered, attempt, firstTier>>
    /\ UNCHANGED <<Detached, vJepaMetadata, speechCalls, extOutcome, combinedScript, ttsError, mode, runs, config, targetSeconds, tierI, lastError, tierFailures,
                   okTier, prevOkTier, parsedChapters, operation, extOp, polls, lastVideoOperation,
                   accumulatedSeconds, segmentIndex, errorStreak, extSubmitted,
                   result, extFaults>>

(* one invocation of the task that retryWithBackoff wraps: generateContent *)
PlanCall ==
    /\ pc = "planCall"
    /\ \/ \E resp \in PlannerResponses :
            (* success: INFO log, execute returns; the plan is parsed and the *)
            (* run enters its try block up to the first generateVideos call   *)
            /\ parsedChapters' = ParsedChaptersOf(resp)
            /\ Report(IngestionCall)
            /\ Logged(<<Entry("INFO", "LLM_ORCHESTRATOR", currentModelIndex, "none", NoErr)>>
                            \o ParseLogs(resp, currentModelIndex)
                            \o <<Entry("INFO", "VEO_INTEGRATOR", currentModelIndex, "none", NoErr)>>)
            /\ lastVideoOperation' = "null"
            /\ accumulatedSeconds' = 0
            /\ segmentIndex' = 0
            /\ errorStreak' = 0
            /\ attempt' = 0
            /\ pc' = "initSubmit"
            /\ okTier' = tierI
            /\ UNCHANGED <<tierI, lastError, tierFailures>>
       \/ \E kind \in {"RATE", "OTHER"} :
            /\ LlmFaultOk
            /\ IF Retryable(kind, attempt)
               THEN /\ Report(IngestionCall)
                    /\ Logged(<<RateLimitWarn>>)
                    /\ attempt' = attempt + 1
                    /\ UNCHANGED <<tierI, lastError, tierFailures, pc>>
               ELSE LET e == Err(kind, TierName(tierI))
                    IN /\ lastError' = RememberError(lastError, e)
                       /\ Report(IngestionCall)
                       /\ Logged(<<Entry("WARN", "LLM_FALLBACK_MANAGER", currentModelIndex,
                                                TierName(tierI), e)>>)
                       /\ tierFailures' = Append(tierFailures,
                              [tier |-> tierI, calls |-> attempt + 1, err |-> e])
                       /\ tierI' = NextTier(tierI)
                       /\ pc' = "planRoute"
                       /\ attempt' = 0
            /\ UNCHANGED <<parsedChapters, lastVideoOperation, accumulatedSeconds,
                           segmentIndex, errorStreak, okTier>>
    /\ UNCHANGED <<Detached, vJepaMetadata, speechCalls, extOutcome, combinedScript, ttsError, mode, runs, currentModelIndex, config, targetSeconds, firstTier,
                   prevOkTier, operation, extOp, polls, extSubmitted, thrown, result, extFaults>>

(* ---------------- operations of the video service ---------------- *)
(* What generateVideos / getVideosOperation can answer: an operation that  *)
(* is not done, or one that is done; a done operation has an error (its    *)
(* message of class SEED or OTHER) or none, and independently              *)
(* response.generatedVideos[0].video absent ("none"), present without uri  *)
(* ("noUri") or complete ("ok").                                           *)
Pending == [done |-> FALSE, error |-> "none", video |-> "none"]
DoneOps ==
    [done : {TRUE}, error : {"none", "SEED", "OTHER"}, video : {"none", "noUri", "ok"}]

OrchestratorError(e) == Entry("ERROR", "PIPELINE_ORCHESTRATOR", currentModelIndex, "none", e)

(* variant: the catch of the run resolves instead of rethrowing *)
FatalSwallowed(e, pre) ==
    /\ Report(IngestionCall)
    /\ Logged(pre \o <<OrchestratorError(e)>>)
    /\ thrown' = e
    /\ pc' = "returned"

(* the catch block of runVisionNarratePipeline: log, then rethrow *)
Fatal(e, pre) ==
    /\ Report(IngestionCall)
    /\ Logged(pre \o <<OrchestratorError(e)>>)
    /\ thrown' = e
    /\ pc' = "rejected"

(* STAGE 5 up to the fetch of the final artifact *)
Assemble(lvo, pre) ==
    IF lvo = "ok"
    THEN /\ pc' = "fetch"
         /\ Report(ProgressCall("ASSEMBLY", 95))
         /\ Logged(pre)
         /\ UNCHANGED thrown
    ELSE Fatal(Err("OTHER", "NO_ARTIFACT"), pre)

(* while (accumulatedSeconds < targetSeconds) *)
LoopTest(acc, lvo, pre) ==
    IF acc < targetSeconds
    THEN /\ pc' = "extWait"
         /\ Report(ProgressCall("GENERATION", ExpandingPercent(acc)))
         /\ Logged(pre)
         /\ UNCHANGED thrown
    ELSE Assemble(lvo, pre)

(* variant: the cap is a digit short *)
SafetyCapEarly(acc) == acc >= 180

(* if (accumulatedSeconds >= 1800) break, at the end of the loop body *)
SafetyCap(acc) == acc >= SafetyCapSeconds

IterationEnd(acc, lvo, pre) ==
    IF SafetyCap(acc) THEN Assemble(lvo, pre) ELSE LoopTest(acc, lvo, pre)

(* variant: the polling loop gives up on an operation that is not done *)
PollAgainNever(op) == FALSE

(* while (!operation.done) / while (!extOp.done) *)
PollAgain(op) == ~op.done

(* one more poll has answered "not done"; the polls beyond MaxPolls are not *)
(* told apart                                                              *)
Polled(n) == IF n < MaxPolls THEN n + 1 ELSE n

(* variant: the error of the INIT operation is not looked at *)
InitFailedIgnored(op) == FALSE

(* if (operation.error) throw *)
InitFailed(op) == op.error # "none"

(* after the INIT polling loop *)
InitDone(op) ==
    IF InitFailed(op)
    THEN /\ Fatal(Err(op.error, "VEO_OP"), <<>>)
         /\ UNCHANGED <<lastVideoOperation, accumulatedSeconds, segmentIndex>>
    ELSE /\ lastVideoOperation' = op.video
         /\ accumulatedSeconds' = InitialSegmentSeconds
         /\ segmentIndex' = segmentIndex + 1
         /\ LoopTest(InitialSegmentSeconds, op.video, <<>>)

(* the task of the first retryWithBackoff: generateVideos without a seed *)
InitSubmit ==
    /\ pc = "initSubmit"
    /\ \/ \E op \in {Pending} \cup DoneOps :
            /\ operation' = op
            /\ polls' = 0
            /\ IF op.done
               THEN InitDone(op)
               ELSE /\ pc' = "initPoll"
                    /\ UNCHANGED <<logs, progress, delivered, thrown, lastVideoOperation, accumulatedSeconds,
                                   segmentIndex>>
            /\ attempt' = 0
       \/ \E kind \in {"RATE", "OTHER"} :
            /\ IF Retryable(kind, attempt)
               THEN /\ Report(IngestionCall)
                    /\ Logged(<<RateLimitWarn>>)
                    /\ attempt' = attempt + 1
                    /\ UNCHANGED <<pc, thrown>>
               ELSE /\ Fatal(Err(kind, "VEO_SUBMIT"), <<>>)
                    /\ attempt' = 0
            /\ UNCHANGED <<operation, polls, lastVideoOperation, accumulatedSeconds,
                           segmentIndex>>
    /\ UNCHANGED <<Detached, vJepaMetadata, speechCalls, extOutcome, combinedScript, ttsError, mode, runs, currentModelIndex, config, targetSeconds, tierI, lastError,
                   tierFailures, firstTier, okTier, prevOkTier, parsedChapters, extOp, errorStreak,
                   extSubmitted, result, extFaults>>

(* while (!operation.done) { await wait(10000); operation = await getVideosOperation } *)
InitPoll ==
    /\ pc = "initPoll"
    /\ \/ \E op \in {Pending} \cup DoneOps :
            /\ operation' = op
            /\ IF PollAgain(op)
               THEN /\ polls' = Polled(polls)
                    /\ UNCHANGED <<pc, logs, progress, delivered, thrown, lastVideoOperation,
                                   accumulatedSeconds, segmentIndex>>
               ELSE /\ InitDone(op)
                    /\ polls' = 0
       \/ \E kind \in {"RATE", "OTHER"} :
            /\ Fatal(Err(kind, "VEO_POLL"), <<>>)
            /\ polls' = 0
            /\ UNCHANGED <<operation, lastVideoOperation, accumulatedSeconds,
                           segmentIndex>>
    /\ UNCHANGED <<Detached, vJepaMetadata, speechCalls, extOutcome, combinedScript, ttsError, mode, runs, currentModelIndex, config, targetSeconds, tierI, lastError,
                   attempt, tierFailures, firstTier, okTier, prevOkTier, parsedChapters, extOp, errorStreak,
                   extSubmitted, result, extFaults>>

(* ---------------- the extension loop ---------------- *)
(* parsedChapters[segmentIndex % parsedChapters.length] || parsedChapters[0]: *)
(* "undefined" for an empty list (the index is NaN), else the element, or  *)
(* the first element when the element is null.                             *)
ChapterRef(chapters, seg) ==
    IF Len(chapters) = 0 THEN "undefined"
    ELSE LET el == chapters[(seg % Len(chapters)) + 1]
         IN IF el = "null" THEN chapters[1] ELSE el

(* variant: a failure does not count *)
StreakStuck(streak) == streak

(* errorStreak++ *)
NextStreak(streak) == streak + 1

(* variant: the inner catch never gives up *)
OverCeilingNever(streak) == FALSE

(* if (errorStreak > 10) throw extError *)
OverCeiling(streak) == streak > ErrorStreakCeiling

(* the inner catch (extError): ERROR log, streak++, rethrow above the      *)
(* ceiling, else wait 20s.  streak is the value of errorStreak on entry.   *)
InnerCatch(e, streak, pre) ==
    LET log == pre \o <<Entry("ERROR", "VEO_INTEGRATOR", currentModelIndex, "none", e)>>
    IN /\ errorStreak' = NextStreak(streak)
       /\ IF OverCeiling(NextStreak(streak))
          THEN Fatal(e, log)
          ELSE /\ pc' = "extBackoff"
               /\ Report(IngestionCall)
               /\ Logged(log)
               /\ UNCHANGED thrown

(* variant: -= 7 instead of += 7 *)
ExtendedDown(acc) == acc - ExtensionSeconds

(* accumulatedSeconds += 7 *)
Extended(acc) == acc + ExtensionSeconds

(* variant: the handle of the new operation is dropped *)
RetainedHandleStale(op) == lastVideoOperation

(* lastVideoOperation = extOp *)
RetainedHandle(op) == op.video

(* after the extension polling loop: classify the finished operation *)
ExtDone(op) ==
    IF op.error = "SEED"
    THEN LET warn == <<Entry("WARN", "VEO_INTEGRATOR", currentModelIndex, "none",
                             Err("SEED", "VEO_OP"))>>
         IN /\ IF NextStreak(errorStreak) > SeedStreakCeiling
               THEN InnerCatch(Err("OTHER", "BACKEND_SYNC"), NextStreak(errorStreak), warn)
               ELSE /\ errorStreak' = NextStreak(errorStreak)
                    /\ LoopTest(accumulatedSeconds, lastVideoOperation, warn)
            /\ Attempted("seedDelay", op)
            /\ UNCHANGED <<lastVideoOperation, accumulatedSeconds, segmentIndex>>
    ELSE IF op.error # "none"
    THEN /\ InnerCatch(Err(op.error, "VEO_OP"), errorStreak, <<>>)
         /\ Attempted("failed", op)
         /\ UNCHANGED <<lastVideoOperation, accumulatedSeconds, segmentIndex>>
    ELSE /\ lastVideoOperation' = RetainedHandle(op)
         /\ accumulatedSeconds' = Extended(accumulatedSeconds)
         /\ segmentIndex' = segmentIndex + 1
         /\ errorStreak' = 0
         /\ Attempted("extended", op)
         /\ IterationEnd(Extended(accumulatedSeconds), RetainedHandle(op), <<>>)

IsExtFault(op) == op.done /\ op.error # "none"

(* loop body after the stabilization wait, up to the generateVideos call *)
ExtWait ==
    /\ pc = "extWait"
    /\ IF lastVideoOperation = "none"
       THEN /\ Fatal(Err("OTHER", "CHAIN_LOST"), <<>>)
            /\ UNCHANGED <<attempt, extSubmitted>>
       ELSE IF ChapterRef(parsedChapters, segmentIndex) # "obj"
       THEN /\ Fatal(Err("TYPE", "LOCAL"), <<>>)
            /\ UNCHANGED <<attempt, extSubmitted>>
       ELSE /\ pc' = "extSubmit"
            /\ attempt' = 0
            /\ extSubmitted' = TRUE
            /\ UNCHANGED <<logs, progress, delivered, thrown>>
    /\ UNCHANGED <<Detached, vJepaMetadata, speechCalls, extOutcome, combinedScript, ttsError, mode, runs, currentModelIndex, config, targetSeconds, tierI, lastError,
                   tierFailures, firstTier, okTier, prevOkTier, parsedChapters, operation, extOp, polls,
                   lastVideoOperation, accumulatedSeconds, segmentIndex, errorStreak,
                   result, extFaults>>

(* the task of the extension retryWithBackoff: generateVideos with video: previousVideoRef *)
ExtSubmit ==
    /\ pc = "extSubmit"
    /\ \/ \E op \in {Pending} \cup DoneOps :
            /\ IsExtFault(op) => ExtFaultOk
            /\ extFaults' = IF IsExtFault(op) THEN ExtFault ELSE extFaults
            /\ polls' = 0
            /\ IF op.done
               THEN /\ ExtDone(op)
                    /\ extOp' = NoOp
               ELSE /\ pc' = "extPoll"
                    /\ extOp' = op
                    /\ UNCHANGED <<logs, progress, delivered, thrown, lastVideoOperation, accumulatedSeconds,
                                   segmentIndex, errorStreak, extOutcome>>
            /\ attempt' = 0
       \/ \E kind \in {"RATE", "OTHER"} :
            /\ ExtFaultOk
            /\ extFaults' = ExtFault
            /\ IF Retryable(kind, attempt)
               THEN /\ Report(IngestionCall)
                    /\ Logged(<<RateLimitWarn>>)
                    /\ attempt' = attempt + 1
                    /\ UNCHANGED <<pc, thrown, errorStreak, extOutcome>>
               ELSE /\ InnerCatch(Err(kind, "VEO_SUBMIT"), errorStreak, <<>>)
                    /\ Attempted("failed", NoOp)
                    /\ attempt' = 0
            /\ UNCHANGED <<extOp, polls, lastVideoOperation, accumulatedSeconds,
                           segmentIndex>>
    /\ UNCHANGED <<Detached, vJepaMetadata, speechCalls, combinedScript, ttsError, mode, runs, currentModelIndex, config, targetSeconds, tierI, lastError,
                   tierFailures, firstTier, okTier, prevOkTier, parsedChapters, operation, extSubmitted,
                   result>>

(* while (!extOp.done) { await wait(10000); extOp = await getVideosOperation } *)
ExtPoll ==
    /\ pc = "extPoll"
    /\ \/ \E op \in {Pending} \cup DoneOps :
            IF PollAgain(op)
            THEN /\ polls' = Polled(polls)
                 /\ extOp' = op
                 /\ UNCHANGED <<pc, logs, progress, delivered, thrown, lastVideoOperation,
                                accumulatedSeconds, segmentIndex, errorStreak, extFaults,
                                extOutcome>>
            ELSE /\ IsExtFault(op) => ExtFaultOk
                 /\ extFaults' = IF IsExtFault(op) THEN ExtFault ELSE extFaults
                 /\ ExtDone(op)
                 /\ extOp' = NoOp
                 /\ polls' = 0
       \/ \E kind \in {"RATE", "OTHER"} :
            /\ ExtFaultOk
            /\ extFaults' = ExtFault
            /\ InnerCatch(Err(kind, "VEO_POLL"), errorStreak, <<>>)
            /\ Attempted("failed", NoOp)
            /\ extOp' = NoOp
            /\ polls' = 0
            /\ UNCHANGED <<lastVideoOperation, accumulatedSeconds, segmentIndex>>
    /\ UNCHANGED <<Detached, vJepaMetadata, speechCalls, combinedScript, ttsError, mode, runs, currentModelIndex, config, targetSeconds, tierI, lastError,
                   attempt, tierFailures, firstTier, okTier, prevOkTier, parsedChapters, operation,
                   extSubmitted, result>>

(* after await wait(20000) in the inner catch: the end of the loop body *)
ExtBackoff ==
    /\ pc = "extBackoff"
    /\ IterationEnd(accumulatedSeconds, lastVideoOperation, <<>>)
    /\ UNCHANGED <<Detached, vJepaMetadata, speechCalls, extOutcome, combinedScript, ttsError, mode, runs, currentModelIndex, config, targetSeconds, tierI, lastError,
                   attempt, tierFailures, firstTier, okTier, prevOkTier, parsedChapters, operation, extOp,
                   polls, lastVideoOperation, accumulatedSeconds, segmentIndex,
                   errorStreak, extSubmitted, result, extFaults>>

(* ---------------- STAGE 5: mastering ---------------- *)
(* parsedChapters.slice(0, Math.ceil(accumulatedSeconds / 30) + 1) *)
NarrationCount(acc) == ((acc + 29) \div 30) + 1

NarrationPrefix(chapters, acc) ==
    SubSeq(chapters, 1, IF NarrationCount(acc) < Len(chapters)
                        THEN NarrationCount(acc) ELSE Len(chapters))

HasNull(chapters) == \E k \in 1..Len(chapters) : chapters[k] = "null"

(* the return statement of runVisionNarratePipeline *)
Return(audio) ==
    /\ result' = [returned |-> TRUE, totalDuration |-> accumulatedSeconds,
                  finalAudioUrl |-> audio, finalTier |-> TierName(currentModelIndex)]
    /\ pc' = "returned"

(* fetch of the final artifact, then the narration script up to the speech call *)
Fetch ==
    /\ pc = "fetch"
    /\ \/ /\ Fatal(Err("OTHER", "FETCH"), <<>>)
          /\ UNCHANGED <<result, attempt, combinedScript, speechCalls>>
       \/ LET exported == <<Entry("INFO", "VEO_INTEGRATOR", currentModelIndex, "none", NoErr)>>
              prefix == NarrationPrefix(parsedChapters, accumulatedSeconds)
          IN IF HasNull(prefix)
             THEN /\ Fatal(Err("TYPE", "LOCAL"), exported)
                  /\ UNCHANGED <<result, attempt, combinedScript, speechCalls>>
             ELSE /\ Report(IngestionCall)
                  /\ Logged(exported)
                  /\ combinedScript' = prefix
                  /\ speechCalls' = speechCalls + 1
                  /\ attempt' = 0
                  /\ UNCHANGED thrown
                  /\ IF Len(prefix) = 0
                     THEN Return("null")
                     ELSE /\ pc' = "speech"
                          /\ UNCHANGED result
    /\ UNCHANGED <<Detached, vJepaMetadata, extOutcome, ttsError, mode, runs, currentModelIndex, config, targetSeconds, tierI, lastError,
                   tierFailures, firstTier, okTier, prevOkTier, parsedChapters, operation, extOp, polls,
                   lastVideoOperation, accumulatedSeconds, segmentIndex, errorStreak,
                   extSubmitted, extFaults>>

(* variant: generateSpeech lets the error through *)
SpeechFailedRaises(e) ==
    /\ ttsError' = e
    /\ Fatal(e, <<>>)
    /\ UNCHANGED result

(* the catch of generateSpeech: console.error, return "" *)
SpeechFailed(e) ==
    /\ ttsError' = e
    /\ Return("null")
    /\ UNCHANGED <<logs, progress, delivered, thrown>>

(* variant: the onLog of generateSpeech is the run's addLog *)
SpeechOnLogAddLog(entry) == <<entry>>

(* (lvl, msg, src) => console.log(...): nothing reaches the log list *)
SpeechOnLog(entry) == <<>>

(* UnifiedLLM.generateSpeech: one invocation of the task its retryWithBackoff  *)
(* wraps (its WARN goes to the console, not to the log list), then the return *)
(* statement of the run: finalAudioData ? data URL : null                      *)
Speech ==
    /\ pc = "speech"
    /\ \/ \E audio \in {"data", "null"} :
            /\ Return(audio)
            /\ attempt' = 0
            /\ UNCHANGED <<logs, progress, delivered, thrown, ttsError>>
       \/ \E kind \in {"RATE", "OTHER"} :
            IF Retryable(kind, attempt)
            THEN /\ attempt' = attempt + 1
                 /\ Logged(SpeechOnLog(RateLimitWarn))
                 /\ UNCHANGED <<pc, result, progress, thrown, ttsError>>
            ELSE /\ SpeechFailed(Err(kind, "TTS"))
                 /\ attempt' = 0
    /\ UNCHANGED <<Detached, vJepaMetadata, speechCalls, extOutcome, combinedScript, mode, runs, currentModelIndex, config, targetSeconds, tierI,
                   lastError, tierFailures, firstTier, okTier, prevOkTier, parsedChapters, operation, extOp,
                   polls, lastVideoOperation, accumulatedSeconds, segmentIndex,
                   errorStreak, extSubmitted, extFaults>>

(* the steps of a run, as opposed to a caller starting one *)
RunStep ==
    \/ Grounding \/ PlanRoute \/ PlanCall \/ InitSubmit \/ InitPoll
    \/ ExtWait \/ ExtSubmit \/ ExtPoll \/ ExtBackoff \/ Fetch \/ Speech

Next == StartRun \/ RunStep

Spec == Init /\ [][Next]_vars
SpecChain == InitChain /\ [][Next]_vars
SpecRuns == InitRuns /\ [][Next]_vars
SpecStages == InitStages /\ [][Next]_vars
SpecStreak == InitStreak /\ [][Next]_vars
SpecAudit == InitAudit /\ [][Next]_vars

(* ---------------- The Backoff Executor on its own ---------------- *)
(* One call of retryWithBackoff with its default maxRetries and            *)
(* initialDelay, the task being any function: each invocation returns, or  *)
(* throws an error of either class.  attempt is the loop variable i,       *)
(* lastError the local of that name, logs what the call hands to addLog,   *)
(* thrown what the call rejects with.                                      *)
initialDelay == 2000       \* retryWithBackoff default
maxJitter == 1000          \* Math.random() * 1000

(* Math.random() lies in [0, 1): its value in thousandths *)
RandomDraws == {0, 500, 999}

(* what one invocation of the task can throw *)
TaskErrors == {Err(kind, at) : kind \in {"RATE", "OTHER"}, at \in {"TASK_E1", "TASK_E2"}}

(* variant: the delay does not grow *)
BackoffDelayFlat(i, r) == initialDelay + (r * maxJitter) \div 1000

(* initialDelay * Math.pow(2, i) + Math.random() * 1000, in whole ms *)
BackoffDelay(i, r) == initialDelay * (2 ^ i) + (r * maxJitter) \div 1000

(* variant: the task is invoked again after it returned *)
TaskReturnedAgain == "task"

(* return await task(): the call resolves *)
TaskReturned == "resolved"

InitBackoff == mode = "backoff" /\ InitCommon

RunLocals == <<runs, currentModelIndex, config, targetSeconds, tierI, tierFailures,
               firstTier, okTier, prevOkTier, parsedChapters, operation, extOp, polls,
               lastVideoOperation, accumulatedSeconds, segmentIndex, errorStreak,
               extSubmitted, result, extFaults, combinedScript, ttsError,
               vJepaMetadata, progress, speechCalls, extOutcome, delivered>>

(* the call: let lastError; i = 0 *)
RwbCall ==
    /\ pc = "idle"
    /\ mode = "backoff"
    /\ pc' = "task"
    /\ attempt' = 0
    /\ lastError' = NoErr
    /\ UNCHANGED <<mode, logs, thrown, taskOutcomes, waits, text, extracted, diagnosis, Apart>>
    /\ UNCHANGED RunLocals

(* one iteration of the loop body, up to the return, the throw or the wait *)
RwbInvoke ==
    /\ pc = "task"
    /\ \/ /\ taskOutcomes' = Append(taskOutcomes, NoErr)
          /\ pc' = TaskReturned
          /\ UNCHANGED <<lastError, logs, waits, thrown>>
       \/ \E error \in TaskErrors :
            /\ taskOutcomes' = Append(taskOutcomes, error)
            /\ lastError' = error
            /\ IF Retryable(error.kind, attempt)
               THEN \E r \in RandomDraws :
                       /\ logs' = Push(<<RateLimitWarn>>)
                       /\ waits' = Append(waits, BackoffDelay(attempt, r))
                       /\ pc' = "cooling"
                       /\ UNCHANGED thrown
               ELSE /\ thrown' = error
                    /\ pc' = "thrown"
                    /\ UNCHANGED <<logs, waits>>
    /\ UNCHANGED <<mode, attempt, text, extracted, diagnosis, Apart>>
    /\ UNCHANGED RunLocals

(* after await wait(delay): continue, i++, the loop test; throw lastError  *)
(* below the loop                                                          *)
RwbWake ==
    /\ pc = "cooling"
    /\ attempt' = attempt + 1
    /\ IF attempt + 1 < maxRetries
       THEN /\ pc' = "task"
            /\ UNCHANGED thrown
       ELSE /\ thrown' = lastError
            /\ pc' = "thrown"
    /\ UNCHANGED <<mode, lastError, logs, taskOutcomes, waits, text, extracted, diagnosis, Apart>>
    /\ UNCHANGED RunLocals

NextBackoff == RwbCall \/ RwbInvoke \/ RwbWake

SpecBackoff == InitBackoff /\ [][NextBackoff]_vars

(* ---------------- The Response Normalizer on its own ---------------- *)
(* extractJson on texts that are sequences of tokens: F is a fence (three  *)
(* backticks), json the word after an opening fence, NL a newline, [ and ] *)
(* the brackets (braces behave alike) and x any other character.           *)
Tokens == {"F", "json", "NL", "[", "]", "x"}
MaxTextLen == 6       \* tokens in an input text
MaxApplications == 2  \* successive applications of extractJson

Texts == SeqsUpTo(Tokens, MaxTextLen)

Least(S) == CHOOSE x \in S : \A y \in S : x <= y
Greatest(S) == CHOOSE x \in S : \A y \in S : x >= y

(* String.prototype.trim *)
Trim(t) ==
    LET solid == {i \in 1..Len(t) : t[i] # "NL"}
    IN IF solid = {} THEN <<>> ELSE SubSeq(t, Least(solid), Greatest(solid))

(* text.match(/```json\n([\s\S]*?)\n```/): the leftmost start, the nearest end *)
JsonFenceEnds(t, i) == {j \in (i + 3)..(Len(t) - 1) : t[j] = "NL" /\ t[j + 1] = "F"}
JsonFenceStarts(t) ==
    {i \in 1..(Len(t) - 4) :
        /\ t[i] = "F" /\ t[i + 1] = "json" /\ t[i + 2] = "NL"
        /\ JsonFenceEnds(t, i) # {}}

(* text.match(/```([\s\S]*?)```/) *)
FenceEnds(t, i) == {j \in (i + 1)..Len(t) : t[j] = "F"}
FenceStarts(t) == {i \in 1..Len(t) : t[i] = "F" /\ FenceEnds(t, i) # {}}

(* jsonMatch: whether there is one, and its group 1 *)
JsonMatch(t) ==
    IF JsonFenceStarts(t) # {}
    THEN LET i == Least(JsonFenceStarts(t))
         IN [found |-> TRUE, group |-> SubSeq(t, i + 3, Least(JsonFenceEnds(t, i)) - 1)]
    ELSE IF FenceStarts(t) # {}
    THEN LET i == Least(FenceStarts(t))
         IN [found |-> TRUE, group |-> SubSeq(t, i + 1, Least(FenceEnds(t, i)) - 1)]
    ELSE [found |-> FALSE, group |-> <<>>]

(* .replace(/^[^{[]+/, '') *)
DropLeading(t) ==
    LET opens == {i \in 1..Len(t) : t[i] = "["}
    IN IF opens = {} THEN <<>> ELSE SubSeq(t, Least(opens), Len(t))

(* .replace(/[^}\]]+$/, '') *)
DropTrailing(t) ==
    LET closes == {i \in 1..Len(t) : t[i] = "]"}
    IN IF closes = {} THEN <<>> ELSE SubSeq(t, 1, Greatest(closes))

extractJson(t) ==
    IF t = <<>> THEN <<"[", "]">>
    ELSE LET jsonMatch == JsonMatch(t)
             trimmed == IF jsonMatch.found THEN Trim(jsonMatch.group) ELSE Trim(t)
         IN DropTrailing(DropLeading(trimmed))

NotNormalizer == <<mode, logs, thrown, attempt, lastError, taskOutcomes, waits, diagnosis, Apart>>

(* a caller hands a text to extractJson *)
NormalizerInput ==
    /\ pc = "idle"
    /\ mode = "normalizer"
    /\ text' \in Texts
    /\ pc' = "extract"
    /\ UNCHANGED extracted
    /\ UNCHANGED NotNormalizer
    /\ UNCHANGED RunLocals

(* extractJson applied to the text, then to its own result *)
ExtractJson ==
    /\ pc = "extract"
    /\ Len(extracted) < MaxApplications
    /\ extracted' = Append(extracted,
                           extractJson(IF extracted = <<>> THEN text
                                       ELSE extracted[Len(extracted)]))
    /\ UNCHANGED <<pc, text>>
    /\ UNCHANGED NotNormalizer
    /\ UNCHANGED RunLocals

InitNormalizer == mode = "normalizer" /\ InitCommon
NextNormalizer == NormalizerInput \/ ExtractJson
SpecNormalizer == InitNormalizer /\ [][NextNormalizer]_vars

(* ---------------- forensicLogAnalysis on its own ---------------- *)
SummaryWindow == 20   \* logs.slice(-20)
MaxHistory == 21      \* entries of a log history

(* log histories: any number of entries up to MaxHistory, all alike *)
LogHistories ==
    {[k \in 1..n |-> Entry(level, "VEO_INTEGRATOR", 0, "none", NoErr)] :
        n \in 0..MaxHistory, level \in {"INFO", "ERROR"}}

(* logs.slice(-20).map(...): the lines of logSummary *)
LogSummary(history) ==
    IF Len(history) <= SummaryWindow THEN history
    ELSE SubSeq(history, Len(history) - SummaryWindow + 1, Len(history))

(* variant: the model's text is returned as it is *)
DiagnosisRaw(responseText) == responseText

(* response.text || "Diagnostic data unavailable." *)
Diagnosis(responseText) ==
    IF responseText = "" THEN "Diagnostic data unavailable." ELSE responseText

(* the catch: return "Forensic engine timeout." *)
ForensicCaught == "Forensic engine timeout."

NotForensic == <<mode, thrown, attempt, lastError, taskOutcomes, waits, text, extracted, Apart>>

(* the call, up to the await of generateContent *)
ForensicCall ==
    /\ pc = "idle"
    /\ mode = "forensic"
    /\ logs' \in LogHistories
    /\ diagnosis' = [lines |-> Len(LogSummary(logs')), text |-> "pending"]
    /\ pc' = "forensic"
    /\ UNCHANGED NotForensic
    /\ UNCHANGED RunLocals

(* generateContent answers with a text (response.text may be empty or      *)
(* undefined, both as ""), or throws                                        *)
ForensicAnswer ==
    /\ pc = "forensic"
    /\ \/ \E responseText \in {"", "diagnosis"} :
            diagnosis' = [diagnosis EXCEPT !.text = Diagnosis(responseText)]
       \/ diagnosis' = [diagnosis EXCEPT !.text = ForensicCaught]
    /\ pc' = "diagnosed"
    /\ UNCHANGED logs
    /\ UNCHANGED NotForensic
    /\ UNCHANGED RunLocals

InitForensic == mode = "forensic" /\ InitCommon
NextForensic == ForensicCall \/ ForensicAnswer
SpecForensic == InitForensic /\ [][NextForensic]_vars

(* ---------------- The earlier variant's chapter loop on its own ---------------- *)
(* The independent-per-chapter variant of runVisionNarratePipeline, from   *)
(* its for loop over the planned chapters to its return: each chapter gets *)
(* a video operation of its own, and a still image when that fails.        *)
(* videoUrl is "blob" (the video was fetched), "image" (the image answer   *)
(* had inline data), "undefined" (it had none) or "" (the image call       *)
(* threw).                                                                 *)
MaxPlanned == 3     \* chapters of the plan, chapters mode

NotChapters == <<mode, logs, attempt, lastError, taskOutcomes, waits, text, extracted,
                 diagnosis, exec, cursorTrace>>

(* the chapter the loop is at *)
ChapterAt == Len(processedChapters) + 1

(* chapter.status = 'COMPLETED'; processedChapters.push(chapter); then the *)
(* next chapter, or STAGE 5 after the last                                 *)
SegmentDone(videoUrl) ==
    LET done == Append(processedChapters,
                       [id |-> chapterPlan[ChapterAt], status |-> "COMPLETED",
                        videoUrl |-> videoUrl])
    IN /\ processedChapters' = done
       /\ pc' = IF Len(done) < Len(chapterPlan) THEN "segmentVideo" ELSE "mastering"
       /\ UNCHANGED thrown

(* variant: the catch of the video block rethrows *)
VideoFailedRaises(e) ==
    /\ thrown' = e
    /\ pc' = "rejected"
    /\ UNCHANGED processedChapters

(* catch (e): WARN log, then the still-image call *)
VideoFailed(e) ==
    /\ pc' = "segmentImage"
    /\ UNCHANGED <<thrown, processedChapters>>

(* after the polling loop: the uri of the video, or throw *)
SegmentPolled(op) ==
    IF op.video = "ok"
    THEN /\ pc' = "segmentFetch"
         /\ UNCHANGED <<thrown, processedChapters>>
    ELSE VideoFailed(Err("OTHER", "NO_URI"))

(* a caller reaches the loop with a plan *)
ChaptersCall ==
    /\ pc = "idle"
    /\ mode = "chapters"
    /\ \E n \in 0..MaxPlanned :
          /\ chapterPlan' = [k \in 1..n |-> k]
          /\ imageCalls' = [k \in 1..n |-> 0]
          /\ pc' = IF n = 0 THEN "mastering" ELSE "segmentVideo"
    /\ processedChapters' = <<>>
    /\ UNCHANGED thrown
    /\ UNCHANGED NotChapters
    /\ UNCHANGED RunLocals

(* generateVideos for the chapter *)
SegmentVideo ==
    /\ pc = "segmentVideo"
    /\ \/ \E op \in {Pending} \cup DoneOps :
            IF PollAgain(op)
            THEN /\ pc' = "segmentPoll"
                 /\ UNCHANGED <<thrown, processedChapters>>
            ELSE SegmentPolled(op)
       \/ \E kind \in {"RATE", "OTHER"} : VideoFailed(Err(kind, "VEO_SUBMIT"))
    /\ UNCHANGED <<chapterPlan, imageCalls>>
    /\ UNCHANGED NotChapters
    /\ UNCHANGED RunLocals

(* while (!operation.done) { await wait(10000); operation = await ... } *)
SegmentPoll ==
    /\ pc = "segmentPoll"
    /\ \/ \E op \in {Pending} \cup DoneOps :
            IF PollAgain(op)
            THEN UNCHANGED <<pc, thrown, processedChapters>>
            ELSE SegmentPolled(op)
       \/ \E kind \in {"RATE", "OTHER"} : VideoFailed(Err(kind, "VEO_POLL"))
    /\ UNCHANGED <<chapterPlan, imageCalls>>
    /\ UNCHANGED NotChapters
    /\ UNCHANGED RunLocals

(* fetch of the video and res.blob() *)
SegmentFetch ==
    /\ pc = "segmentFetch"
    /\ \/ SegmentDone("blob")
       \/ VideoFailed(Err("OTHER", "FETCH"))
    /\ UNCHANGED <<chapterPlan, imageCalls>>
    /\ UNCHANGED NotChapters
    /\ UNCHANGED RunLocals

(* the still-image call and its own try / catch *)
SegmentImage ==
    /\ pc = "segmentImage"
    /\ imageCalls' = [imageCalls EXCEPT ![ChapterAt] = @ + 1]
    /\ \E videoUrl \in {"image", "undefined", ""} : SegmentDone(videoUrl)
    /\ UNCHANGED chapterPlan
    /\ UNCHANGED NotChapters
    /\ UNCHANGED RunLocals

(* STAGE 5: generateSpeech (which never raises), the last log, the return *)
Mastering ==
    /\ pc = "mastering"
    /\ pc' = "returned"
    /\ UNCHANGED <<thrown, chapterPlan, processedChapters, imageCalls>>
    /\ UNCHANGED NotChapters
    /\ UNCHANGED RunLocals

InitChapters == mode = "chapters" /\ InitCommon
NextChapters ==
    \/ ChaptersCall \/ SegmentVideo \/ SegmentPoll \/ SegmentFetch
    \/ SegmentImage \/ Mastering
SpecChapters == InitChapters /\ [][NextChapters]_vars

(* ---------------- Two runs in one process ---------------- *)
(* Runs started by the same page share the module-level cursor.  A step is *)
(* the code of one run between two awaits; the steps of the runs           *)
(* interleave in any order.  Of each run: pc, the loop index i of its      *)
(* execute, the tier that served its planning call (-1 if none), the tier  *)
(* its latest log entry carries and its finalTier.                         *)
ConcurrentRuns == 2     \* runs executing at once, concurrent mode

RunIds == 1..ConcurrentRuns

NotStarted == [pc |-> "idle", i |-> 0, served |-> -1, logTier |-> "none", finalTier |-> "none"]

NotConcurrent == <<mode, logs, thrown, attempt, lastError, taskOutcomes, waits, text,
                   extracted, diagnosis, chapterPlan, processedChapters, imageCalls>>

BesideCursor == <<runs, config, targetSeconds, tierI, tierFailures,
                  firstTier, okTier, prevOkTier, parsedChapters, operation, extOp, polls,
                  lastVideoOperation, accumulatedSeconds, segmentIndex, errorStreak,
                  extSubmitted, result, extFaults, combinedScript, ttsError,
                  vJepaMetadata, progress, speechCalls, extOutcome, delivered>>

(* variant: a run reports the tier it is itself on *)
ReportedTierOwn(own) == TierName(own)

(* LLM_FALLBACK_CHAIN[currentModelIndex].tier, in addLog and in the result *)
ReportedTier(own) == TierName(currentModelIndex')

(* the page starts the runs *)
RunsStart ==
    /\ pc = "idle"
    /\ mode = "concurrent"
    /\ pc' = "concurrent"
    /\ exec' = [r \in RunIds |-> NotStarted]
    /\ UNCHANGED <<currentModelIndex, cursorTrace>>
    /\ UNCHANGED NotConcurrent
    /\ UNCHANGED BesideCursor

(* run r reaches execute: i = currentModelIndex; currentModelIndex = i;    *)
(* the DEBUG log; the call of the tier is awaited                          *)
ExecEnter(r) ==
    /\ pc = "concurrent"
    /\ exec[r].pc = "idle"
    /\ currentModelIndex' = RouteCursor(ExecuteStart(currentModelIndex))
    /\ cursorTrace' = Append(cursorTrace, currentModelIndex')
    /\ exec' = [exec EXCEPT ![r] = [@ EXCEPT !.pc = "call",
                                              !.i = ExecuteStart(currentModelIndex),
                                              !.logTier = ReportedTier(ExecuteStart(currentModelIndex))]]
    /\ UNCHANGED pc
    /\ UNCHANGED NotConcurrent
    /\ UNCHANGED BesideCursor

(* the call of tier i answers: the INFO log and execute returns; the run   *)
(* goes on to its next await                                               *)
ExecCallOk(r) ==
    /\ pc = "concurrent"
    /\ exec[r].pc = "call"
    /\ UNCHANGED <<pc, currentModelIndex, cursorTrace>>
    /\ exec' = [exec EXCEPT ![r] = [@ EXCEPT !.pc = "running",
                                              !.served = exec[r].i,
                                              !.logTier = ReportedTier(exec[r].i)]]
    /\ UNCHANGED NotConcurrent
    /\ UNCHANGED BesideCursor

(* the call of tier i is rejected: the WARN log, i++, and either the next  *)
(* tier is routed to (currentModelIndex = i, DEBUG log) or execute throws  *)
ExecCallFail(r) ==
    /\ pc = "concurrent"
    /\ exec[r].pc = "call"
    /\ LET next == NextTier(exec[r].i)
       IN IF next < NumTiers
          THEN /\ currentModelIndex' = RouteCursor(next)
               /\ cursorTrace' = Append(cursorTrace, currentModelIndex')
               /\ exec' = [exec EXCEPT ![r] = [@ EXCEPT !.i = next,
                                                         !.logTier = ReportedTier(next)]]
          ELSE /\ UNCHANGED <<currentModelIndex, cursorTrace>>
               /\ exec' = [exec EXCEPT ![r] = [@ EXCEPT !.pc = "rejected", !.i = next,
                                                         !.logTier = ReportedTier(exec[r].i)]]
    /\ UNCHANGED pc
    /\ UNCHANGED NotConcurrent
    /\ UNCHANGED BesideCursor

(* the run returns its result: finalTier *)
RunReturns(r) ==
    /\ pc = "concurrent"
    /\ exec[r].pc = "running"
    /\ UNCHANGED <<pc, currentModelIndex, cursorTrace>>
    /\ exec' = [exec EXCEPT ![r] = [@ EXCEPT !.pc = "returned",
                                              !.finalTier = ReportedTier(exec[r].served)]]
    /\ UNCHANGED NotConcurrent
    /\ UNCHANGED BesideCursor

InitConcurrent == mode = "concurrent" /\ InitCommon
NextConcurrent ==
    \/ RunsStart
    \/ \E r \in RunIds : ExecEnter(r)
    \/ \E r \in RunIds : ExecCallOk(r)
    \/ \E r \in RunIds : ExecCallFail(r)
    \/ \E r \in RunIds : RunReturns(r)
SpecConcurrent == InitConcurrent /\ [][NextConcurrent]_vars

(* ======================= properties ======================= *)
InExtensionLoop == pc \in {"extWait", "extSubmit", "extPoll", "extBackoff"}
FailedTiers == {tierFailures[k].tier : k \in 1..Len(tierFailures)}
(* the planning call has failed on every tier from the cursor on *)
PlanFailed == pc = "rejected" /\ tierI = NumTiers
FallbackWarns(t) ==
    Cardinality({k \in 1..Len(logs) : /\ logs[k].level = "WARN"
                                      /\ logs[k].source = "LLM_FALLBACK_MANAGER"
                                      /\ logs[k].tier = TierName(t)})

(* C1: once entered, the extension loop is always left, and it is left     *)
(* with accumulated >= target, accumulated >= 1800, or a FATAL rejection.  *)
C1_ExtensionLoopTerminates ==
    InExtensionLoop ~>
        (/\ ~InExtensionLoop
         /\ \/ pc = "rejected"
            \/ accumulatedSeconds >= targetSeconds
            \/ accumulatedSeconds >= SafetyCapSeconds)
C1_Witness ==
    /\ pc = "fetch"
    /\ accumulatedSeconds >= SafetyCapSeconds
    /\ accumulatedSeconds < targetSeconds

(* C2: within a run no step lowers accumulatedSeconds. *)
C2_AccumulatedNeverDecreases ==
    [][runs' = runs => accumulatedSeconds' >= accumulatedSeconds]_vars
C2_Witness ==
    /\ accumulatedSeconds > InitialSegmentSeconds
    /\ errorStreak > 0
    /\ pc = "extBackoff"

(* C3: an extension call is submitted only after the INIT operation has    *)
(* reported done without error.                                            *)
C3_NoExtensionBeforeInitDone ==
    (extSubmitted \/ pc \in {"extSubmit", "extPoll"})
        => (operation.done /\ operation.error = "none")
C3_Witness == extSubmitted /\ pc = "extPoll" /\ operation.done

(* C4: a returned result has totalDuration >= min(targetSeconds, 1800);    *)
(* with a target of 60 the run made an extension call and the result has   *)
(* totalDuration >= 60.                                                    *)
C4_ResultReachesTargetOrCap ==
    result.returned =>
        /\ result.totalDuration >= MinOf(targetSeconds, SafetyCapSeconds)
        /\ targetSeconds = 60 => (extSubmitted /\ result.totalDuration >= 60)
C4_Witness == result.returned /\ targetSeconds = 60 /\ config.tenths = 10

(* C5: the tier about to be called has not failed in this execute, and     *)
(* within a run the cursor never decreases.                                *)
C5_NoRetriedTierAndCursorForward ==
    /\ [](pc = "planCall" => tierI \notin FailedTiers)
    /\ [][runs' = runs => currentModelIndex' >= currentModelIndex]_vars
C5_Witness == pc = "planCall" /\ Len(tierFailures) = 2 /\ runs = 2

(* C6: after a successful execute the cursor is the tier that succeeded,   *)
(* and the next execute makes its first call to that tier.                 *)
C6_CursorSticky ==
    /\ okTier # -1 => currentModelIndex = okTier
    /\ (prevOkTier # -1 /\ firstTier # -1) => firstTier = prevOkTier
C6_Witness == prevOkTier = 1 /\ firstTier = 1 /\ pc = "planCall"

(* C7 as stated: every abandoned tier had used all maxRetries attempts and *)
(* got exactly one WARN of the fallback manager.                           *)
C7_AbandonedAfterAllAttempts ==
    \A k \in 1..Len(tierFailures) :
        /\ tierFailures[k].calls = maxRetries
        /\ FallbackWarns(tierFailures[k].tier) = 1

(* C7 amended: the cursor moves from a tier to the next one only after     *)
(* retryWithBackoff has rejected for that tier (after maxRetries calls     *)
(* that all failed rate-limited, or at the first other failure), and each  *)
(* abandoned tier has exactly one WARN of LLM_FALLBACK_MANAGER.            *)
C7_AbandonedOnRejection ==
    /\ [](\A k \in 1..Len(tierFailures) :
            LET f == tierFailures[k]
            IN /\ f.calls \in 1..maxRetries
               /\ (f.calls = maxRetries \/ f.err.kind # "RATE")
               /\ FallbackWarns(f.tier) = 1)
    /\ [](\A t \in 0..(NumTiers - 1) : t \notin FailedTiers => FallbackWarns(t) = 0)
    /\ [][(runs' = runs /\ currentModelIndex' # currentModelIndex) =>
            /\ Len(tierFailures) > 0
            /\ tierFailures[Len(tierFailures)].tier = currentModelIndex
            /\ currentModelIndex' = currentModelIndex + 1]_vars
C7_Witness ==
    /\ Len(tierFailures) = 2
    /\ tierFailures[1].calls = 1
    /\ tierFailures[2].calls = maxRetries
    /\ currentModelIndex = 2

C9_ErrorEntryPerExhaustedTier ==
    (/\ PlanFailed
     /\ \A k \in 1..Len(tierFailures) : tierFailures[k].calls = maxRetries)
    => \A k \in 1..Len(tierFailures) :
          \E j \in 1..Len(logs) :
              /\ logs[j].level = "ERROR"
              /\ \/ logs[j].tier = TierName(tierFailures[k].tier)
                 \/ logs[j].err = tierFailures[k].err

(* C10: whenever a run is rejected, the last log entry is the ERROR entry  *)
(* of the orchestrator for the error it is rejected with.                  *)
C10_EveryFailureLoggedLast ==
    pc = "rejected" =>
        /\ Len(logs) > 0
        /\ logs[Len(logs)].level = "ERROR"
        /\ logs[Len(logs)].source = "PIPELINE_ORCHESTRATOR"
        /\ logs[Len(logs)].err = thrown

(* ---- retryWithBackoff ---- *)
Invocations == Len(taskOutcomes)
WarnsEmitted == Cardinality({k \in 1..Len(logs) : logs[k].level = "WARN"})
CallCompleted == pc \in {"resolved", "thrown"}

(* C11: one call invokes the task at most maxRetries times, and never      *)
(* again after an invocation that returned.                                *)
C11_AtMostMaxRetriesInvocations ==
    /\ Invocations <= maxRetries
    /\ \A k \in 1..(Invocations - 1) : taskOutcomes[k] # NoErr
    /\ pc = "task" => (attempt < maxRetries /\ Invocations = attempt)
    /\ pc = "resolved" => taskOutcomes[Invocations] = NoErr
C11_Witness ==
    /\ pc = "resolved"
    /\ Invocations = maxRetries

(* C12: the wait before retry number i (from 0) lies in                    *)
(* [initialDelay * 2^i, initialDelay * 2^i + maxJitter]: [2000, 3000] then *)
(* [4000, 5000].                                                           *)
C12_DelayWithinBounds ==
    /\ \A k \in 1..Len(waits) :
          /\ waits[k] >= initialDelay * (2 ^ (k - 1))
          /\ waits[k] <= initialDelay * (2 ^ (k - 1)) + maxJitter
    /\ Len(waits) >= 1 => waits[1] \in 2000..3000
    /\ Len(waits) >= 2 => waits[2] \in 4000..5000
C12_Witness ==
    /\ Len(waits) = 2
    /\ waits[1] = 2000
    /\ waits[2] = 4999

(* C13: a rejected call rejects with the error of its last invocation; it  *)
(* was rejected at the first failure that is not rate-limited, without a   *)
(* wait or a WARN for that failure, or at the last of maxRetries           *)
(* rate-limited failures; nothing is invoked after the rejection.          *)
C13_RejectsWithLastError ==
    /\ [](pc = "thrown" =>
            /\ Invocations >= 1
            /\ thrown = taskOutcomes[Invocations]
            /\ thrown # NoErr
            /\ \A k \in 1..(Invocations - 1) : taskOutcomes[k].kind = "RATE"
            /\ \/ thrown.kind # "RATE"
               \/ Invocations = maxRetries
            /\ Len(waits) = Invocations - 1
            /\ WarnsEmitted = Invocations - 1)
    /\ [][pc # "thrown"]_vars
C13_Witness ==
    /\ pc = "thrown"
    /\ Invocations = 2
    /\ thrown.kind = "OTHER"
    /\ taskOutcomes[1].at # thrown.at

(* C14: in every completed call the number of WARN logs equals the number  *)
(* of invocations minus one.                                               *)
C14_OneWarnPerRetry ==
    CallCompleted => WarnsEmitted = Invocations - 1
C14_Witness ==
    /\ pc = "thrown"
    /\ Invocations = maxRetries
    /\ WarnsEmitted = 2

(* ---- planner parse ---- *)
PlanningReturned == okTier # -1
SynthesisSites ==
    {"VEO_SUBMIT", "VEO_POLL", "VEO_OP", "CHAIN_LOST", "BACKEND_SYNC", "NO_ARTIFACT", "FETCH"}

(* C15: whatever the planner's response text, the chapter list handed to   *)
(* the synthesis chain is not empty.                                       *)
C15_ChapterListNonEmpty ==
    PlanningReturned => Len(parsedChapters) >= 1

(* C16: once the planning call has returned, a run is rejected only with   *)
(* an error of segment synthesis or of the retrieval of the artifact,      *)
(* never with one caused by what the planner's text parsed to.             *)
C16_PlannerTextNeverFailsRun ==
    (pc = "rejected" /\ PlanningReturned) => thrown.at \in SynthesisSites

(* C17: generateSpeech never raises: from the speech call the run goes     *)
(* nowhere but to its return, and when the speech call has failed the run  *)
(* has returned a result with finalAudioUrl = null.                        *)
C17_SpeechNeverRaises ==
    /\ [](ttsError # NoErr =>
            /\ pc = "returned"
            /\ result.returned
            /\ result.finalAudioUrl = "null"
            /\ thrown = NoErr)
    /\ [][pc = "speech" => (pc' \in {"speech", "returned"} /\ thrown' = NoErr)]_vars
C17_Witness ==
    /\ ttsError.kind = "RATE"
    /\ result.returned
    /\ result.totalDuration > InitialSegmentSeconds

(* C18: when the INIT operation has completed with an error the run is     *)
(* rejected with that error: no extension call has been submitted, the     *)
(* operation is not submitted again and no result is returned.             *)
C18_InitFailureIsFatal ==
    (operation.done /\ operation.error # "none") =>
        /\ pc = "rejected"
        /\ thrown = Err(operation.error, "VEO_OP")
        /\ ~extSubmitted
        /\ result = NoResult
        /\ accumulatedSeconds = 0
C18_Witness ==
    /\ operation.done
    /\ operation.error = "SEED"
    /\ operation.video = "ok"
    /\ pc = "rejected"

(* C19: a run that has thrown is rejected and has no result; the chain     *)
(* goes on after a failed extension only within the streak ceilings and    *)
(* submits an extension only with a continuation handle.                   *)
C19_FatalRejectsWithoutResult ==
    /\ thrown # NoErr => (pc = "rejected" /\ result = NoResult)
    /\ pc = "rejected" => thrown # NoErr
    /\ pc = "extBackoff" => errorStreak \in 1..ErrorStreakCeiling
    /\ pc # "rejected" => errorStreak <= SeedStreakCeiling
    /\ pc \in {"extSubmit", "extPoll"} => lastVideoOperation # "none"
C19_Witness ==
    /\ pc = "rejected"
    /\ errorStreak = ErrorStreakCeiling + 1
    /\ accumulatedSeconds >= InitialSegmentSeconds + ExtensionSeconds + ExtensionSeconds

(* C20: the number of chapters narrated is the share of the planned        *)
(* chapters proportional to accumulatedSeconds / targetSeconds, rounded up *)
(* and clamped to the number of chapters.                                  *)
C20_NarrationProportional ==
    (result.returned /\ targetSeconds > 0) =>
        Len(combinedScript) =
            MinOf(Len(parsedChapters),
                  (Len(parsedChapters) * accumulatedSeconds + targetSeconds - 1)
                      \div targetSeconds)

(* ---- extractJson ---- *)
HasFence(t) == JsonMatch(t).found
HasBracket(t) == \E i \in 1..Len(t) : t[i] \in {"[", "]"}
Normalized == extracted # <<>>

(* C21: extractJson applied to its own result returns that result. *)
C21_ExtractJsonIdempotent ==
    Len(extracted) >= 2 => extracted[2] = extracted[1]

(* C22: extractJson returns the content of the fence when there is one     *)
(* (as it is, or cut to its bracket region), else the bracket region when  *)
(* the text has a bracket, else the full text (as it is, or trimmed).      *)
C22_ExtractJsonStrategy ==
    (Normalized /\ text # <<>>) =>
        LET out == extracted[1]
            group == Trim(JsonMatch(text).group)
        IN /\ HasFence(text) => out \in {group, DropTrailing(DropLeading(group))}
           /\ (~HasFence(text) /\ HasBracket(text)) =>
                 out = DropTrailing(DropLeading(Trim(text)))
           /\ (~HasFence(text) /\ ~HasBracket(text)) => out \in {text, Trim(text)}

(* ---- forensicLogAnalysis ---- *)
(* C26: forensicLogAnalysis never raises: the call always resolves, to a   *)
(* string that is not empty.                                               *)
C26_ForensicNeverRaises ==
    /\ [](pc = "diagnosed" =>
            /\ diagnosis.text \notin {"", "pending"}
            /\ thrown = NoErr)
    /\ [][pc = "forensic" => pc' = "diagnosed"]_vars
C26_Witness ==
    /\ pc = "diagnosed"
    /\ logs = <<>>
    /\ diagnosis.text = "Forensic engine timeout."

(* ---- grounding ---- *)
PlanningIssued == pc \in {"planRoute", "planCall"}

(* C23: when the planning call is issued the grounding data holds at least *)
(* one grounding record, also when the recording list is empty.            *)
C23_GroundingNonEmpty ==
    PlanningIssued => vJepaMetadata.scenes >= 1

(* C24: an override that is supplied and parses as JSON is the grounding   *)
(* given to the planner; with no override, or one that does not parse, the *)
(* grounding is synthesized from the recordings and the run goes on.       *)
C24_OverrideOrPlaceholder ==
    PlanningIssued =>
        /\ config.manual \in {"valid", "falsy"} => vJepaMetadata.origin = "manual"
        /\ config.manual \in {"absent", "invalid"} =>
              /\ vJepaMetadata.origin = "synthesized"
              /\ vJepaMetadata.scenes = config.recordings
        /\ thrown = NoErr

(* ---- rate limits ---- *)
(* C25: a run is rejected with a rate-limit error only by a call that was  *)
(* made maxRetries times: the step that raised it was on its last attempt, *)
(* or the planner's last tier had used all its attempts.                   *)
C25_RateLimitAlwaysRetried ==
    [][(pc # "rejected" /\ pc' = "rejected" /\ thrown'.kind = "RATE") =>
          \/ attempt = maxRetries - 1
          \/ /\ pc = "planRoute"
             /\ tierFailures # <<>>
             /\ tierFailures[Len(tierFailures)].calls = maxRetries]_vars

(* ---- progress ---- *)
(* the order of the AppState tags a run reports *)
StageRank(state) ==
    CASE state = "NONE" -> 0
      [] state = "INGESTION" -> 1
      [] state = "ANALYSIS" -> 2
      [] state = "PLANNING" -> 3
      [] state = "GENERATION" -> 4
      [] state = "ASSEMBLY" -> 5

(* C27: within a run the stage tag of onProgress never returns to an       *)
(* earlier stage and the percent stays in 0..100 and never decreases.      *)
C27_ProgressMonotone ==
    [][runs' = runs =>
          /\ StageRank(progress'.state) >= StageRank(progress.state)
          /\ progress'.percent >= progress.percent
          /\ progress'.percent \in 0..100]_vars

(* ---- mastering ---- *)
(* C28: generateSpeech is invoked at most once per run, only after the     *)
(* chain has left its loop with the target or the safety cap reached, and  *)
(* never in a run that is rejected.                                        *)
C28_SpeechOnceAfterChain ==
    /\ speechCalls <= 1
    /\ speechCalls = 1 =>
          /\ pc \in {"speech", "returned"}
          /\ thrown = NoErr
          /\ \/ accumulatedSeconds >= targetSeconds
             \/ accumulatedSeconds >= SafetyCapSeconds
    /\ pc = "rejected" => speechCalls = 0
C28_Witness ==
    /\ speechCalls = 1
    /\ pc = "returned"
    /\ accumulatedSeconds >= SafetyCapSeconds
    /\ accumulatedSeconds < targetSeconds

(* ---- extension attempts ---- *)
AttemptEnds(how) ==
    /\ extOutcome'.ended = extOutcome.ended + 1
    /\ extOutcome'.how = how

(* C29: a successful extension replaces the retained handle with the new   *)
(* operation, adds 7 to accumulatedSeconds, advances segmentIndex by one   *)
(* and resets errorStreak to 0.                                            *)
C29_ExtensionSuccessEffect ==
    [][AttemptEnds("extended") =>
          /\ lastVideoOperation' = extOutcome'.video
          /\ accumulatedSeconds' = accumulatedSeconds + 7
          /\ segmentIndex' = segmentIndex + 1
          /\ errorStreak' = 0]_vars
C29_Witness ==
    /\ extOutcome = [ended |-> 2, how |-> "extended", video |-> "noUri",
                     done |-> TRUE]
    /\ lastVideoOperation = "noUri"
    /\ accumulatedSeconds = InitialSegmentSeconds + ExtensionSeconds
    /\ segmentIndex = 2
    /\ errorStreak = 0
    /\ pc = "extWait"

(* C30: a failed extension attempt of either class leaves the retained     *)
(* handle, accumulatedSeconds and segmentIndex as they were; errorStreak   *)
(* alone changes, upwards.                                                 *)
C30_ExtensionFailureFrame ==
    [][(AttemptEnds("seedDelay") \/ AttemptEnds("failed")) =>
          /\ UNCHANGED <<lastVideoOperation, accumulatedSeconds, segmentIndex>>
          /\ errorStreak' > errorStreak]_vars
C30_Witness ==
    /\ extOutcome.ended = 2
    /\ extOutcome.how \in {"seedDelay", "failed"}
    /\ lastVideoOperation = "ok"
    /\ accumulatedSeconds = InitialSegmentSeconds + ExtensionSeconds
    /\ segmentIndex = 2
    /\ errorStreak = 1

(* ---- speech and the router ---- *)
(* C34: generateSpeech does no cross-tier fallback: whatever the speech    *)
(* call does, the cursor stays where it is and the log list gets no entry. *)
C34_SpeechLeavesCursorAndLogs ==
    [][pc = "speech" =>
          /\ currentModelIndex' = currentModelIndex
          /\ logs' = logs]_vars
C34_Witness ==
    /\ pc = "returned"
    /\ ttsError.kind = "RATE"
    /\ currentModelIndex = 1
    /\ result.finalTier = TierName(1)
    /\ logs[Len(logs)].source = "VEO_INTEGRATOR"

(* C37: the cursor is not reset between runs: starting a run leaves it,    *)
(* the first tier a run routes to is the cursor it found, the execute that *)
(* exhausts the tiers leaves the cursor on the last one, and an execute    *)
(* that begins on the last tier calls no other tier.                       *)
C37_CursorNeverReset ==
    /\ [][runs' # runs => currentModelIndex' = currentModelIndex]_vars
    /\ [][currentModelIndex' >= currentModelIndex]_vars
    /\ [][(pc = "planRoute" /\ firstTier = -1) => firstTier' = currentModelIndex]_vars
    /\ [][(pc = "planRoute" /\ pc' = "rejected") => currentModelIndex = NumTiers - 1]_vars
    /\ [](firstTier = NumTiers - 1 =>
            /\ \A k \in 1..Len(tierFailures) : tierFailures[k].tier = NumTiers - 1
            /\ pc = "planCall" => tierI = NumTiers - 1)
C37_Witness ==
    /\ runs = 2
    /\ pc = "rejected"
    /\ firstTier = NumTiers - 1
    /\ Len(tierFailures) = 1
    /\ prevOkTier = -1

(* C38: the cursor is always the index of a tier of LLM_FALLBACK_CHAIN,    *)
(* also after every tier has failed, so finalTier names an existing tier.  *)
C38_CursorInRange ==
    /\ currentModelIndex \in 0..(NumTiers - 1)
    /\ result.returned => result.finalTier = TierName(currentModelIndex)
C38_Witness ==
    /\ pc = "rejected"
    /\ Len(tierFailures) = NumTiers
    /\ currentModelIndex = NumTiers - 1

(* C40: once INIT has succeeded accumulatedSeconds is                      *)
(* 5 + 7 * (segmentIndex - 1), and it never exceeds 1804.                  *)
C40_AccumulatedFormula ==
    /\ segmentIndex >= 1 => accumulatedSeconds = 5 + 7 * (segmentIndex - 1)
    /\ accumulatedSeconds <= 1804
C40_Witness ==
    /\ accumulatedSeconds = 1804
    /\ segmentIndex = 258
    /\ result.returned

(* ---- the two classes of extension failure ---- *)
InAttempt(at) == at \in {"extSubmit", "extPoll"}

(* this step ends an extension attempt, the way given *)
AttemptOver(how) ==
    /\ InAttempt(pc)
    /\ ~InAttempt(pc')
    /\ extOutcome'.how = how

ChainUntouched == UNCHANGED <<lastVideoOperation, accumulatedSeconds, segmentIndex>>

(* C31: a seed-not-ready result logs a WARN and increments errorStreak;    *)
(* the run is rejected exactly when the incremented streak exceeds 15,     *)
(* else the same step is tried again.  The streak is the one the other     *)
(* failures count in.                                                      *)
C31_SeedDelayStreak ==
    [][AttemptOver("seedDelay") =>
          /\ logs'[1].level = "WARN"
          /\ logs'[1].source = "VEO_INTEGRATOR"
          /\ logs'[1].err.kind = "SEED"
          /\ errorStreak' > errorStreak
          /\ ChainUntouched
          /\ IF errorStreak + 1 > 15
             THEN /\ pc' = "rejected"
                  /\ thrown'.at = "BACKEND_SYNC"
             ELSE /\ pc' = "extWait"
                  /\ errorStreak' = errorStreak + 1
                  /\ thrown' = NoErr]_vars
C31_Witness ==
    /\ pc = "rejected"
    /\ thrown.at = "BACKEND_SYNC"
    /\ extOutcome.how = "seedDelay"
    /\ accumulatedSeconds = InitialSegmentSeconds + ExtensionSeconds

(* C32: any other extension failure logs an ERROR and increments           *)
(* errorStreak; the step is retried while the incremented streak is at     *)
(* most 10 and the run is rejected with the error exactly when it exceeds  *)
(* 10.                                                                     *)
C32_OtherFailureStreak ==
    [][AttemptOver("failed") =>
          /\ logs'[1].level = "ERROR"
          /\ logs'[1].source = "VEO_INTEGRATOR"
          /\ errorStreak' = errorStreak + 1
          /\ ChainUntouched
          /\ IF errorStreak + 1 > 10
             THEN /\ pc' = "rejected"
                  /\ thrown' = logs'[1].err
             ELSE /\ pc' = "extBackoff"
                  /\ thrown' = NoErr]_vars
C32_Witness ==
    /\ pc = "rejected"
    /\ extOutcome.how = "failed"
    /\ errorStreak = 11
    /\ thrown.at = "VEO_SUBMIT"
    /\ accumulatedSeconds = InitialSegmentSeconds + ExtensionSeconds

(* ---- polling ---- *)
Polling == pc \in {"initPoll", "extPoll"}

(* a poll that answers "not done": the run stays where it is *)
StillPolling ==
    /\ InitPoll \/ ExtPoll
    /\ pc' = pc
    /\ UNCHANGED <<thrown, result, errorStreak, accumulatedSeconds, segmentIndex,
                   lastVideoOperation>>

(* C33 as stated: a polling loop is left only when the operation has       *)
(* reported done.                                                          *)
C33_PollingEndsOnlyOnDone ==
    /\ [][(pc = "initPoll" /\ pc' # pc) => operation'.done]_vars
    /\ [][(pc = "extPoll" /\ pc' # pc) => extOutcome'.done]_vars

(* C33 amended: a polling loop is left only when the operation has         *)
(* reported done or the polling call itself has thrown; as long as the     *)
(* polls answer "not done" one more poll is always possible and leaves the *)
(* run polling, whatever the streak and the accumulated duration.          *)
C33_PollingEndsOnDoneOrThrow ==
    /\ [](Polling => ENABLED StillPolling)
    /\ [][(pc = "initPoll" /\ pc' # pc) =>
            \/ operation'.done
            \/ pc' = "rejected" /\ thrown'.at = "VEO_POLL"]_vars
    /\ [][(pc = "extPoll" /\ pc' # pc) =>
            \/ extOutcome'.done
            \/ /\ extOutcome'.how = "failed"
               /\ logs'[1].err.at = "VEO_POLL"]_vars
C33_Witness ==
    /\ pc = "extPoll"
    /\ polls = MaxPolls
    /\ ~extOp.done
    /\ errorStreak = ErrorStreakCeiling
    /\ accumulatedSeconds = InitialSegmentSeconds + ExtensionSeconds

(* ---- the log list ---- *)
(* C39: every entry is appended to the run's log list and handed to        *)
(* onProgress once, in creation order; entries in the list are neither     *)
(* changed nor removed, so the logs of a returned result are the sequence  *)
(* of entries that was delivered.                                          *)
C39_LogAppendOnlyAndDelivered ==
    /\ [](delivered = logs)
    /\ [][runs' = runs =>
            /\ Len(logs') >= Len(logs)
            /\ SubSeq(logs', 1, Len(logs)) = logs]_vars
C39_Witness ==
    /\ result.returned
    /\ delivered = logs
    /\ \E k \in 1..Len(logs) : logs[k].source = "LLM_FALLBACK_MANAGER"
    /\ \E k \in 1..Len(logs) : logs[k].source = "RATE_LIMITER"
    /\ \E k \in 1..Len(logs) : logs[k].level = "ERROR"

(* ---- the independent-per-chapter variant ---- *)
(* C35: a failure of the video synthesis of a chapter never fails the run: *)
(* the still image is tried once for that chapter, the chapter is appended *)
(* as COMPLETED whatever the image call gave, and the chapters are         *)
(* processed in plan order up to the last.                                 *)
C35_ChapterFailureNeverFailsRun ==
    /\ [](thrown = NoErr /\ pc # "rejected")
    /\ [](\A k \in 1..Len(processedChapters) :
            /\ processedChapters[k].id = chapterPlan[k]
            /\ processedChapters[k].status = "COMPLETED"
            /\ imageCalls[k] = IF processedChapters[k].videoUrl = "blob" THEN 0 ELSE 1)
    /\ [](\A k \in 1..Len(chapterPlan) : imageCalls[k] <= 1)
    /\ [](pc \in {"mastering", "returned"} => Len(processedChapters) = Len(chapterPlan))
    /\ [][pc = "segmentImage" =>
            /\ Len(processedChapters') = Len(processedChapters) + 1
            /\ pc' \in {"segmentVideo", "mastering"}]_vars
C35_Witness ==
    /\ pc = "returned"
    /\ Len(processedChapters) = 3
    /\ processedChapters[1].videoUrl = ""
    /\ processedChapters[2].videoUrl = "blob"
    /\ processedChapters[3].videoUrl = "undefined"

(* ---- two runs at once ---- *)
Started == pc = "concurrent"
MovedBack == \E k \in 1..(Len(cursorTrace) - 1) : cursorTrace[k + 1] < cursorTrace[k]

(* C36: two runs at once contend on the cursor: the tier a run reports in  *)
(* its log entries and in finalTier is the tier of the shared cursor at    *)
(* that moment, whichever tier the run itself is on, and the cursor moves  *)
(* backward exactly by a run escalating from a tier that lies behind the   *)
(* tier another run has reached.                                           *)
C36_SharedCursorContention ==
    /\ [][Started =>
            \A r \in RunIds :
               /\ exec'[r].logTier # exec[r].logTier =>
                     exec'[r].logTier = TierName(currentModelIndex')
               /\ exec'[r].finalTier # exec[r].finalTier =>
                     exec'[r].finalTier = TierName(currentModelIndex')]_vars
    /\ [][(Started /\ currentModelIndex' < currentModelIndex) =>
            \E r \in RunIds :
               /\ exec'[r].i = exec[r].i + 1
               /\ currentModelIndex' = exec'[r].i
               /\ \E q \in RunIds \ {r} : exec[q].i > exec'[r].i]_vars
C36_Witness ==
    /\ Started
    /\ exec[2].pc = "returned"
    /\ exec[2].served = 2
    /\ exec[2].finalTier = TierName(1)
    /\ exec[1].i = 1
    /\ MovedBack

(* Every awaited step of a run completes: the event loop resumes the run   *)
(* once the awaited call has answered, and an operation that is polled     *)
(* does not answer "not done" for ever.                                    *)
FairChain == SpecChain /\ WF_vars(RunStep)
====
